---- MODULE Spec2Model ----
(***************************************************************************)
(* pkg/task/task.go: the Task composites Serial and Parallel, and the      *)
(* shared Context with its mutex-guarded maps.                             *)
(*                                                                         *)
(* A task tree is a function from node ids to nodes; goroutines are        *)
(* threads, one call stack each.  The main thread has the id of the root,  *)
(* the goroutine that Parallel starts for child t has the id t.            *)
(***************************************************************************)
EXTENDS Integers, Sequences, FiniteSets, TLC

\* Number of children of the flat Serial tree.
NSerial == 3
\* Number of children of the flat Parallel tree.
NParallel == 2
\* Number of client threads that call the Context accessors.
NClients == 2

VARIABLES
    tree,        \* node id -> [kind, hideDetailDisplay, inner]
    stack,       \* thread -> sequence of frames [task, op, pc, i]; the last is the running one
    ret,         \* thread -> the error the last returned call gave (the local `err`)
    trace,       \* thread -> what the thread did, in order: notices, events, calls, returns
    firstError,  \* Parallel node -> local firstError of its running Execute/Rollback
    mu,          \* Parallel node -> thread holding the local mutex mu, 0 when unlocked
    wg,          \* Parallel node -> counter of the local WaitGroup wg
    phase,       \* the operations the caller has invoked on the root so far
    executors,   \* ctx.exec.executors: a map host -> executor
    stdouts,     \* ctx.exec.stdouts: a map host -> bytes
    stderrs,     \* ctx.exec.stderrs: a map host -> bytes
    execLock,    \* ctx.exec.RWMutex: [writer: client or 0, readers: set of clients]
    manifests,   \* ctx.manifestCache.manifests: a map component -> manifest
    manifestLock,\* ctx.manifestCache.RWMutex: [writer: client or 0, readers: set of clients]
    client,      \* client thread -> its current Context call, position and locals
    lastSet      \* host -> what the last SetExecutor and the last SetOutputs on it passed,
                 \* whether a SetExecutor replaced another executor, who called SetOutputs (history)

taskVars == <<tree, stack, ret, trace, firstError, mu, wg, phase>>
ctxVars == <<executors, stdouts, stderrs, execLock, manifests, manifestLock, client, lastSet>>
manifestVars == <<manifests, manifestLock>>
vars == <<tree, stack, ret, trace, firstError, mu, wg, phase,
          executors, stdouts, stderrs, execLock, manifests, manifestLock, client, lastSet>>

-----------------------------------------------------------------------------
(* Errors *)

\* The nil error.
Nil == [msg |-> "nil", task |-> 0]

ErrUnsupportedRollback == [msg |-> "unsupported rollback", task |-> 0]

ErrNoExecutor == [msg |-> "no executor", task |-> 0]

\* The error a leaf's own Execute or Rollback returns: opaque, one per leaf and operation.
StepErr(op, t) == [msg |-> op, task |-> t]

\* What a leaf task's Execute(ctx) may return.
LeafExecuteResults(t) == {Nil, StepErr("Execute", t)}

\* What a leaf task's Rollback(ctx) may return.
LeafRollbackResults(t) == {Nil, StepErr("Rollback", t), ErrUnsupportedRollback}

-----------------------------------------------------------------------------
(* Task trees *)

Root == 1

Leaf == [kind |-> "Leaf", hideDetailDisplay |-> FALSE, inner |-> <<>>]

Serial(hide, in) == [kind |-> "Serial", hideDetailDisplay |-> hide, inner |-> in]

Parallel(hide, in) == [kind |-> "Parallel", hideDetailDisplay |-> hide, inner |-> in]

\* The two progress-display wrappers isDisplayTask names; what they wrap is theirs.
StepDisplay == [kind |-> "StepDisplay", hideDetailDisplay |-> FALSE, inner |-> <<>>]

ParallelStepDisplay ==
    [kind |-> "ParallelStepDisplay", hideDetailDisplay |-> FALSE, inner |-> <<>>]

\* A composite whose children are n leaves: node 1 over the leaves 2..n+1.
FlatTree(composite, n) ==
    [x \in 1..(n + 1) |-> IF x = Root THEN [composite EXCEPT !.inner = [j \in 1..n |-> j + 1]]
                                       ELSE Leaf]

\* The trees the caller builds.
Trees ==
    UNION {
        { FlatTree(Serial(h, <<>>), NSerial),
          FlatTree(Parallel(h, <<>>), NParallel),
          \* Parallel[ Serial[leaf, leaf], leaf ]
          <<Parallel(h, <<2, 3>>), Serial(h, <<4, 5>>), Leaf, Leaf, Leaf>>,
          \* Serial[ leaf, Parallel[leaf, leaf] ]
          <<Serial(h, <<2, 3>>), Leaf, Parallel(h, <<4, 5>>), Leaf, Leaf>> }
        : h \in BOOLEAN }

Nodes == DOMAIN tree

Children(p) == {tree[p].inner[j] : j \in 1..Len(tree[p].inner)}

IsParent(p, t) == t \in Children(p)

ParentOf(t) == CHOOSE p \in Nodes : IsParent(p, t)

RECURSIVE ThreadOf(_)
\* The thread a task's Execute and Rollback run on.
ThreadOf(t) ==
    IF t = Root THEN Root
    ELSE IF tree[ParentOf(t)].kind = "Parallel" THEN t
    ELSE ThreadOf(ParentOf(t))

\* Mutant: the type check of *ParallelStepDisplay is missing.
isDisplayTaskButOne(t) ==
    \/ tree[t].kind = "Serial"
    \/ tree[t].kind = "Parallel"
    \/ tree[t].kind = "StepDisplay"

isDisplayTask(t) ==
    \/ tree[t].kind = "Serial"
    \/ tree[t].kind = "Parallel"
    \/ tree[t].kind = "StepDisplay"
    \/ tree[t].kind = "ParallelStepDisplay"

-----------------------------------------------------------------------------
(* What a thread does, recorded in order *)

NoticeRec(label, t) == [type |-> "Notice", op |-> label, task |-> t, err |-> Nil]

BeginRec(t) == [type |-> "Begin", op |-> "event", task |-> t, err |-> Nil]

FinishRec(t, e) == [type |-> "Finish", op |-> "event", task |-> t, err |-> e]

CallRec(op, t) == [type |-> "Call", op |-> op, task |-> t, err |-> Nil]

ReturnRec(op, t, e) == [type |-> "Return", op |-> op, task |-> t, err |-> e]

\* The goroutine of child t reached `if firstError == nil` and saw firstError = seen.
RecordRec(op, t, seen) == [type |-> "Record", op |-> op, task |-> t, err |-> seen]

\* log.Infof("+ [ Serial ] - %s", t.String()) and its Parallel twin: the notice of
\* composite p for child t, as the records appended.
Notice(p, label, t) ==
    IF ~isDisplayTask(t) /\ ~tree[p].hideDetailDisplay THEN <<NoticeRec(label, t)>> ELSE <<>>

\* The call ctx.ev.PublishTaskBegin(t), as the record of the event handed to the bus
\* by the calling thread.
PublishTaskBegin(t) == <<BeginRec(t)>>

\* The call ctx.ev.PublishTaskFinish(t, err)
PublishTaskFinish(t, e) == <<FinishRec(t, e)>>

-----------------------------------------------------------------------------
(* Call stacks *)

Top(th) == stack[th][Len(stack[th])]

Running(th, kind, op, pc) ==
    /\ stack[th] # <<>>
    /\ tree[Top(th).task].kind = kind
    /\ Top(th).op = op
    /\ Top(th).pc = pc

\* The frame of a call of op on task t, at its first statement.
Frame(t, op) ==
    [task |-> t, op |-> op, pc |-> "entry",
     i |-> IF tree[t].kind = "Serial" /\ op = "Rollback" THEN Len(tree[t].inner) ELSE 1]

\* The stack with the running frame moved to pc and index i.
Goto(s, pc, i) == [s EXCEPT ![Len(s)] = [@ EXCEPT !.pc = pc, !.i = i]]

\* The thread th appends recs to what it did.
Emit(th, recs) == trace' = [trace EXCEPT ![th] = @ \o recs]

\* The running frame of th calls op on t and continues at pc when t returns.
Call(th, t, op, pc) ==
    /\ stack' = [stack EXCEPT ![th] = Append(Goto(@, pc, Top(th).i), Frame(t, op))]
    /\ Emit(th, <<CallRec(op, t)>>)

\* The running frame of th returns e.
Return(th, e) ==
    /\ stack' = [stack EXCEPT ![th] = SubSeq(@, 1, Len(@) - 1)]
    /\ ret' = [ret EXCEPT ![th] = e]
    /\ Emit(th, <<ReturnRec(Top(th).op, Top(th).task, e)>>)

-----------------------------------------------------------------------------
(* The caller: builds a tree, calls Execute and/or Rollback on its root *)

CallerExecute ==
    /\ phase = <<>>
    /\ stack[Root] = <<>>
    /\ phase' = Append(phase, "Execute")
    /\ stack' = [stack EXCEPT ![Root] = <<Frame(Root, "Execute")>>]
    /\ Emit(Root, <<CallRec("Execute", Root)>>)
    /\ UNCHANGED <<tree, ret, firstError, mu, wg, ctxVars>>

CallerRollback ==
    /\ phase \in {<<>>, <<"Execute">>}
    /\ stack[Root] = <<>>
    /\ phase' = Append(phase, "Rollback")
    /\ stack' = [stack EXCEPT ![Root] = <<Frame(Root, "Rollback")>>]
    /\ Emit(Root, <<CallRec("Rollback", Root)>>)
    /\ UNCHANGED <<tree, ret, firstError, mu, wg, ctxVars>>

-----------------------------------------------------------------------------
(* Leaf tasks: code of the collaborators, opaque here but for the calls they make on
   the Context, which they have finished when they return *)

LeafExecute(th) ==
    /\ Running(th, "Leaf", "Execute", "entry") \/ Running(th, "Leaf", "Execute", "called")
    /\ th \in DOMAIN client => client[th].pc = "idle"
    /\ \E e \in LeafExecuteResults(Top(th).task) : Return(th, e)
    /\ UNCHANGED <<tree, firstError, mu, wg, phase, ctxVars>>

LeafRollback(th) ==
    /\ Running(th, "Leaf", "Rollback", "entry") \/ Running(th, "Leaf", "Rollback", "called")
    /\ th \in DOMAIN client => client[th].pc = "idle"
    /\ \E e \in LeafRollbackResults(Top(th).task) : Return(th, e)
    /\ UNCHANGED <<tree, firstError, mu, wg, phase, ctxVars>>

-----------------------------------------------------------------------------
(* Serial.Execute *)

\* Mutant: hideDetailDisplay silences the Begin event along with the notice.
SerialExecuteBeginHidesEvent(th) ==
    /\ Running(th, "Serial", "Execute", "entry")
    /\ Top(th).i <= Len(tree[Top(th).task].inner)
    /\ LET s == Top(th).task
           t == tree[s].inner[Top(th).i]
       IN  Emit(th, Notice(s, "Serial", t) \o
                    (IF tree[s].hideDetailDisplay THEN <<>> ELSE PublishTaskBegin(t)))
    /\ stack' = [stack EXCEPT ![th] = Goto(@, "call", Top(th).i)]
    /\ UNCHANGED <<tree, ret, firstError, mu, wg, phase, ctxVars>>

\* for _, t := range s.inner { notice; ctx.ev.PublishTaskBegin(t)
SerialExecuteBegin(th) ==
    /\ Running(th, "Serial", "Execute", "entry")
    /\ Top(th).i <= Len(tree[Top(th).task].inner)
    /\ LET s == Top(th).task
           t == tree[s].inner[Top(th).i]
       IN  Emit(th, Notice(s, "Serial", t) \o PublishTaskBegin(t))
    /\ stack' = [stack EXCEPT ![th] = Goto(@, "call", Top(th).i)]
    /\ UNCHANGED <<tree, ret, firstError, mu, wg, phase, ctxVars>>

\* err := t.Execute(ctx)
SerialExecuteCall(th) ==
    /\ Running(th, "Serial", "Execute", "call")
    /\ Call(th, tree[Top(th).task].inner[Top(th).i], "Execute", "finish")
    /\ UNCHANGED <<tree, ret, firstError, mu, wg, phase, ctxVars>>

\* Mutant: the Finish event loses the error.
SerialExecuteFinishNoError(th) ==
    /\ Running(th, "Serial", "Execute", "finish")
    /\ Emit(th, PublishTaskFinish(tree[Top(th).task].inner[Top(th).i], Nil))
    /\ stack' = [stack EXCEPT ![th] = Goto(@, "check", Top(th).i)]
    /\ UNCHANGED <<tree, ret, firstError, mu, wg, phase, ctxVars>>

\* ctx.ev.PublishTaskFinish(t, err)
SerialExecuteFinish(th) ==
    /\ Running(th, "Serial", "Execute", "finish")
    /\ Emit(th, PublishTaskFinish(tree[Top(th).task].inner[Top(th).i], ret[th]))
    /\ stack' = [stack EXCEPT ![th] = Goto(@, "check", Top(th).i)]
    /\ UNCHANGED <<tree, ret, firstError, mu, wg, phase, ctxVars>>

\* Mutant: the loop goes on to the next child after a failure.
SerialExecuteCheckNoStop(th) ==
    /\ Running(th, "Serial", "Execute", "check")
    /\ stack' = [stack EXCEPT ![th] = Goto(@, "entry", Top(th).i + 1)]
    /\ UNCHANGED <<tree, ret, trace, firstError, mu, wg, phase, ctxVars>>

\* if err != nil { return err } } -- else on to the next child
SerialExecuteCheck(th) ==
    /\ Running(th, "Serial", "Execute", "check")
    /\ IF ret[th] # Nil
       THEN Return(th, ret[th])
       ELSE /\ stack' = [stack EXCEPT ![th] = Goto(@, "entry", Top(th).i + 1)]
            /\ UNCHANGED trace
    /\ UNCHANGED <<tree, ret, firstError, mu, wg, phase, ctxVars>>

\* return nil, once the range is exhausted
SerialExecuteReturn(th) ==
    /\ Running(th, "Serial", "Execute", "entry")
    /\ Top(th).i > Len(tree[Top(th).task].inner)
    /\ Return(th, Nil)
    /\ UNCHANGED <<tree, firstError, mu, wg, phase, ctxVars>>

-----------------------------------------------------------------------------
(* Serial.Rollback *)

\* Mutant: the loop walks the children in forward order.
SerialRollbackCallForward(th) ==
    /\ Running(th, "Serial", "Rollback", "entry")
    /\ Top(th).i >= 1
    /\ Call(th, tree[Top(th).task].inner[Len(tree[Top(th).task].inner) + 1 - Top(th).i],
            "Rollback", "check")
    /\ UNCHANGED <<tree, ret, firstError, mu, wg, phase, ctxVars>>

\* for i := len(s.inner) - 1; i >= 0; i-- { err := s.inner[i].Rollback(ctx)
\* (the index is 1-based here: it runs from Len(inner) down to 1)
SerialRollbackCall(th) ==
    /\ Running(th, "Serial", "Rollback", "entry")
    /\ Top(th).i >= 1
    /\ Call(th, tree[Top(th).task].inner[Top(th).i], "Rollback", "check")
    /\ UNCHANGED <<tree, ret, firstError, mu, wg, phase, ctxVars>>

\* Mutant: a failed Rollback does not stop the loop.
SerialRollbackCheckIgnore(th) ==
    /\ Running(th, "Serial", "Rollback", "check")
    /\ stack' = [stack EXCEPT ![th] = Goto(@, "entry", Top(th).i - 1)]
    /\ UNCHANGED <<tree, ret, trace, firstError, mu, wg, phase, ctxVars>>

\* if err != nil { return err } } -- else on to the child before
SerialRollbackCheck(th) ==
    /\ Running(th, "Serial", "Rollback", "check")
    /\ IF ret[th] # Nil
       THEN Return(th, ret[th])
       ELSE /\ stack' = [stack EXCEPT ![th] = Goto(@, "entry", Top(th).i - 1)]
            /\ UNCHANGED trace
    /\ UNCHANGED <<tree, ret, firstError, mu, wg, phase, ctxVars>>

\* return nil, once the loop is over
SerialRollbackReturn(th) ==
    /\ Running(th, "Serial", "Rollback", "entry")
    /\ Top(th).i < 1
    /\ Return(th, Nil)
    /\ UNCHANGED <<tree, firstError, mu, wg, phase, ctxVars>>

-----------------------------------------------------------------------------
(* Parallel.Execute *)

\* var firstError error; var mu sync.Mutex; wg := sync.WaitGroup{}
ParallelExecuteEntry(th) ==
    /\ Running(th, "Parallel", "Execute", "entry")
    /\ firstError' = [firstError EXCEPT ![Top(th).task] = Nil]
    /\ mu' = [mu EXCEPT ![Top(th).task] = 0]
    /\ wg' = [wg EXCEPT ![Top(th).task] = 0]
    /\ stack' = [stack EXCEPT ![th] = Goto(@, "spawn", 1)]
    /\ UNCHANGED <<tree, ret, trace, phase, ctxVars>>

\* for _, t := range pt.inner { wg.Add(1); go func(t Task) {...}(t) }
ParallelExecuteGo(th) ==
    /\ Running(th, "Parallel", "Execute", "spawn")
    /\ Top(th).i <= Len(tree[Top(th).task].inner)
    /\ LET p == Top(th).task
           t == tree[p].inner[Top(th).i]
       IN  /\ wg' = [wg EXCEPT ![p] = @ + 1]
           /\ stack' = [stack EXCEPT ![th] = Goto(@, "spawn", Top(th).i + 1),
                                     ![t] = <<[task |-> t, op |-> "goExecute",
                                               pc |-> "entry", i |-> 1]>>]
    /\ UNCHANGED <<tree, ret, trace, firstError, mu, phase, ctxVars>>

\* Mutant: no wg.Wait() before the return.
ParallelExecuteNoWait(th) ==
    /\ Running(th, "Parallel", "Execute", "spawn")
    /\ Top(th).i > Len(tree[Top(th).task].inner)
    /\ Return(th, firstError[Top(th).task])
    /\ UNCHANGED <<tree, firstError, mu, wg, phase, ctxVars>>

\* wg.Wait(); return firstError
ParallelExecuteWait(th) ==
    /\ Running(th, "Parallel", "Execute", "spawn")
    /\ Top(th).i > Len(tree[Top(th).task].inner)
    /\ wg[Top(th).task] = 0
    /\ Return(th, firstError[Top(th).task])
    /\ UNCHANGED <<tree, firstError, mu, wg, phase, ctxVars>>

\* A goroutine of Parallel.Execute is at pc.
GoExecuteAt(th, pc) ==
    /\ stack[th] # <<>>
    /\ Top(th).op = "goExecute"
    /\ Top(th).pc = pc

\* notice; ctx.ev.PublishTaskBegin(t)
GoExecuteBegin(th) ==
    /\ GoExecuteAt(th, "entry")
    /\ Emit(th, Notice(ParentOf(th), "Parallel", th) \o PublishTaskBegin(th))
    /\ stack' = [stack EXCEPT ![th] = Goto(@, "call", 1)]
    /\ UNCHANGED <<tree, ret, firstError, mu, wg, phase, ctxVars>>

\* Mutant: fail fast, a child is not executed once a sibling's error is recorded.
GoExecuteCallFailFast(th) ==
    /\ GoExecuteAt(th, "call")
    /\ IF firstError[ParentOf(th)] = Nil
       THEN Call(th, th, "Execute", "finish")
       ELSE /\ stack' = [stack EXCEPT ![th] = Goto(@, "done", 1)]
            /\ UNCHANGED trace
    /\ UNCHANGED <<tree, ret, firstError, mu, wg, phase, ctxVars>>

\* err := t.Execute(ctx)
GoExecuteCall(th) ==
    /\ GoExecuteAt(th, "call")
    /\ Call(th, th, "Execute", "finish")
    /\ UNCHANGED <<tree, ret, firstError, mu, wg, phase, ctxVars>>

\* Mutant: the Finish event is published only for a failed child.
GoExecuteFinishOnError(th) ==
    /\ GoExecuteAt(th, "finish")
    /\ Emit(th, IF ret[th] # Nil THEN PublishTaskFinish(th, ret[th]) ELSE <<>>)
    /\ stack' = [stack EXCEPT ![th] = Goto(@, IF ret[th] # Nil THEN "lock" ELSE "done", 1)]
    /\ UNCHANGED <<tree, ret, firstError, mu, wg, phase, ctxVars>>

\* ctx.ev.PublishTaskFinish(t, err); if err != nil {
GoExecuteFinish(th) ==
    /\ GoExecuteAt(th, "finish")
    /\ Emit(th, PublishTaskFinish(th, ret[th]))
    /\ stack' = [stack EXCEPT ![th] = Goto(@, IF ret[th] # Nil THEN "lock" ELSE "done", 1)]
    /\ UNCHANGED <<tree, ret, firstError, mu, wg, phase, ctxVars>>

\* mu.Lock()
GoExecuteLock(th) ==
    /\ GoExecuteAt(th, "lock")
    /\ mu[ParentOf(th)] = 0
    /\ mu' = [mu EXCEPT ![ParentOf(th)] = th]
    /\ stack' = [stack EXCEPT ![th] = Goto(@, "record", 1)]
    /\ UNCHANGED <<tree, ret, trace, firstError, wg, phase, ctxVars>>

\* Mutant: the error is wrapped into an error of the composite before it is recorded.
GoExecuteRecordWrapped(th) ==
    /\ GoExecuteAt(th, "record")
    /\ firstError' = [firstError EXCEPT ![ParentOf(th)] =
                          IF @ = Nil THEN StepErr("Execute", ParentOf(th)) ELSE @]
    /\ Emit(th, <<RecordRec("Execute", th, firstError[ParentOf(th)])>>)
    /\ stack' = [stack EXCEPT ![th] = Goto(@, "unlock", 1)]
    /\ UNCHANGED <<tree, ret, mu, wg, phase, ctxVars>>

\* Mutant: firstError = err without the nil test, the last error wins.
GoExecuteRecordLast(th) ==
    /\ GoExecuteAt(th, "record")
    /\ firstError' = [firstError EXCEPT ![ParentOf(th)] = ret[th]]
    /\ Emit(th, <<RecordRec("Execute", th, firstError[ParentOf(th)])>>)
    /\ stack' = [stack EXCEPT ![th] = Goto(@, "unlock", 1)]
    /\ UNCHANGED <<tree, ret, mu, wg, phase, ctxVars>>

\* if firstError == nil { firstError = err }
GoExecuteRecord(th) ==
    /\ GoExecuteAt(th, "record")
    /\ firstError' = [firstError EXCEPT ![ParentOf(th)] = IF @ = Nil THEN ret[th] ELSE @]
    /\ Emit(th, <<RecordRec("Execute", th, firstError[ParentOf(th)])>>)
    /\ stack' = [stack EXCEPT ![th] = Goto(@, "unlock", 1)]
    /\ UNCHANGED <<tree, ret, mu, wg, phase, ctxVars>>

\* mu.Unlock() }
GoExecuteUnlock(th) ==
    /\ GoExecuteAt(th, "unlock")
    /\ mu' = [mu EXCEPT ![ParentOf(th)] = 0]
    /\ stack' = [stack EXCEPT ![th] = Goto(@, "done", 1)]
    /\ UNCHANGED <<tree, ret, trace, firstError, wg, phase, ctxVars>>

\* defer wg.Done(): the goroutine ends
GoExecuteDone(th) ==
    /\ GoExecuteAt(th, "done")
    /\ wg' = [wg EXCEPT ![ParentOf(th)] = @ - 1]
    /\ stack' = [stack EXCEPT ![th] = <<>>]
    /\ UNCHANGED <<tree, ret, trace, firstError, mu, phase, ctxVars>>

-----------------------------------------------------------------------------
(* Parallel.Rollback *)

\* var firstError error; var mu sync.Mutex; wg := sync.WaitGroup{}
ParallelRollbackEntry(th) ==
    /\ Running(th, "Parallel", "Rollback", "entry")
    /\ firstError' = [firstError EXCEPT ![Top(th).task] = Nil]
    /\ mu' = [mu EXCEPT ![Top(th).task] = 0]
    /\ wg' = [wg EXCEPT ![Top(th).task] = 0]
    /\ stack' = [stack EXCEPT ![th] = Goto(@, "spawn", 1)]
    /\ UNCHANGED <<tree, ret, trace, phase, ctxVars>>

\* for _, t := range pt.inner { wg.Add(1); go func(t Task) {...}(t) }
ParallelRollbackGo(th) ==
    /\ Running(th, "Parallel", "Rollback", "spawn")
    /\ Top(th).i <= Len(tree[Top(th).task].inner)
    /\ LET p == Top(th).task
           t == tree[p].inner[Top(th).i]
       IN  /\ wg' = [wg EXCEPT ![p] = @ + 1]
           /\ stack' = [stack EXCEPT ![th] = Goto(@, "spawn", Top(th).i + 1),
                                     ![t] = <<[task |-> t, op |-> "goRollback",
                                               pc |-> "entry", i |-> 1]>>]
    /\ UNCHANGED <<tree, ret, trace, firstError, mu, phase, ctxVars>>

\* Mutant: no wg.Wait() before the return.
ParallelRollbackNoWait(th) ==
    /\ Running(th, "Parallel", "Rollback", "spawn")
    /\ Top(th).i > Len(tree[Top(th).task].inner)
    /\ Return(th, firstError[Top(th).task])
    /\ UNCHANGED <<tree, firstError, mu, wg, phase, ctxVars>>

\* wg.Wait(); return firstError
ParallelRollbackWait(th) ==
    /\ Running(th, "Parallel", "Rollback", "spawn")
    /\ Top(th).i > Len(tree[Top(th).task].inner)
    /\ wg[Top(th).task] = 0
    /\ Return(th, firstError[Top(th).task])
    /\ UNCHANGED <<tree, firstError, mu, wg, phase, ctxVars>>

\* A goroutine of Parallel.Rollback is at pc.
GoRollbackAt(th, pc) ==
    /\ stack[th] # <<>>
    /\ Top(th).op = "goRollback"
    /\ Top(th).pc = pc

\* Mutant: the Rollback closure publishes a Begin event as the Execute closure does.
GoRollbackCallAnnounced(th) ==
    /\ GoRollbackAt(th, "entry")
    /\ stack' = [stack EXCEPT ![th] =
                     Append(Goto(@, "check", Top(th).i), Frame(th, "Rollback"))]
    /\ Emit(th, PublishTaskBegin(th) \o <<CallRec("Rollback", th)>>)
    /\ UNCHANGED <<tree, ret, firstError, mu, wg, phase, ctxVars>>

\* err := t.Rollback(ctx)
GoRollbackCall(th) ==
    /\ GoRollbackAt(th, "entry")
    /\ Call(th, th, "Rollback", "check")
    /\ UNCHANGED <<tree, ret, firstError, mu, wg, phase, ctxVars>>

\* if err != nil {
GoRollbackCheck(th) ==
    /\ GoRollbackAt(th, "check")
    /\ stack' = [stack EXCEPT ![th] = Goto(@, IF ret[th] # Nil THEN "lock" ELSE "done", 1)]
    /\ UNCHANGED <<tree, ret, trace, firstError, mu, wg, phase, ctxVars>>

\* mu.Lock()
GoRollbackLock(th) ==
    /\ GoRollbackAt(th, "lock")
    /\ mu[ParentOf(th)] = 0
    /\ mu' = [mu EXCEPT ![ParentOf(th)] = th]
    /\ stack' = [stack EXCEPT ![th] = Goto(@, "record", 1)]
    /\ UNCHANGED <<tree, ret, trace, firstError, wg, phase, ctxVars>>

\* Mutant: firstError = err without the nil test in the Rollback closure.
GoRollbackRecordLast(th) ==
    /\ GoRollbackAt(th, "record")
    /\ firstError' = [firstError EXCEPT ![ParentOf(th)] = ret[th]]
    /\ Emit(th, <<RecordRec("Rollback", th, firstError[ParentOf(th)])>>)
    /\ stack' = [stack EXCEPT ![th] = Goto(@, "unlock", 1)]
    /\ UNCHANGED <<tree, ret, mu, wg, phase, ctxVars>>

\* if firstError == nil { firstError = err }
GoRollbackRecord(th) ==
    /\ GoRollbackAt(th, "record")
    /\ firstError' = [firstError EXCEPT ![ParentOf(th)] = IF @ = Nil THEN ret[th] ELSE @]
    /\ Emit(th, <<RecordRec("Rollback", th, firstError[ParentOf(th)])>>)
    /\ stack' = [stack EXCEPT ![th] = Goto(@, "unlock", 1)]
    /\ UNCHANGED <<tree, ret, mu, wg, phase, ctxVars>>

\* mu.Unlock() }
GoRollbackUnlock(th) ==
    /\ GoRollbackAt(th, "unlock")
    /\ mu' = [mu EXCEPT ![ParentOf(th)] = 0]
    /\ stack' = [stack EXCEPT ![th] = Goto(@, "done", 1)]
    /\ UNCHANGED <<tree, ret, trace, firstError, wg, phase, ctxVars>>

\* defer wg.Done(): the goroutine ends
GoRollbackDone(th) ==
    /\ GoRollbackAt(th, "done")
    /\ wg' = [wg EXCEPT ![ParentOf(th)] = @ - 1]
    /\ stack' = [stack EXCEPT ![th] = <<>>]
    /\ UNCHANGED <<tree, ret, trace, firstError, mu, phase, ctxVars>>

-----------------------------------------------------------------------------
(* The Context: NewContext and the accessors of ctx.exec *)

Hosts == {"h1", "h2"}

\* The zero value of executor.TiOpsExecutor (a nil interface).
ZeroExecutor == "nil"

\* The executors a caller may register; SetExecutor accepts nil as well.
Executors == {ZeroExecutor, "e1", "e2"}

\* The zero value of []byte.
NilBytes == "nil"

\* The byte slices a caller may pass to SetOutputs.
Bytes == {"a", "b"}

\* The component names a caller may pass.
Components == {"tidb"}

\* The zero value of *repository.VersionManifest (a nil pointer).
ZeroManifest == "nil"

\* The manifests a caller may cache; SetManifest accepts nil as well.
Manifests == {ZeroManifest, "m1"}

\* The threads that call the accessors from outside a task tree.
Clients == DOMAIN client

\* make(map[string]...)
EmptyMap == [k \in {} |-> ZeroExecutor]

\* v, ok := m[k]
MapGet(m, k, zero) ==
    IF k \in DOMAIN m THEN [v |-> m[k], ok |-> TRUE] ELSE [v |-> zero, ok |-> FALSE]

\* m[k] = v
MapSet(m, k, v) == [x \in DOMAIN m \cup {k} |-> IF x = k THEN v ELSE m[x]]

\* sync.RWMutex: Lock may proceed
CanLock(l) == l.writer = 0 /\ l.readers = {}

\* sync.RWMutex: RLock may proceed
CanRLock(l) == l.writer = 0

\* A client thread between calls, before its first.
IdleClient ==
    [op |-> "none", pc |-> "idle", host |-> "h1", e |-> ZeroExecutor, ok |-> FALSE,
     stdout |-> NilBytes, stderr |-> NilBytes, ok1 |-> FALSE, ok2 |-> FALSE, expect |-> <<>>,
     comp |-> "tidb", m |-> ZeroManifest]

\* A client thread may start a call.
CanCall(c) == client[c].pc = "idle"

\* The locals of client c at the first statement of op(host, ...), the lock taken.
Entered(op, host) == [IdleClient EXCEPT !.op = op, !.pc = "locked", !.host = host]

\* No Set call has completed.
NoSet ==
    [h \in Hosts |-> [executor |-> <<>>, overwritten |-> FALSE, outputs |-> <<>>, writers |-> {}]]

InitCtx(n) ==
    /\ executors = EmptyMap
    /\ stdouts = EmptyMap
    /\ stderrs = EmptyMap
    /\ execLock = [writer |-> 0, readers |-> {}]
    /\ manifests = EmptyMap
    /\ manifestLock = [writer |-> 0, readers |-> {}]
    /\ client = [c \in 1..n |-> IdleClient]
    /\ lastSet = NoSet

(* Context.Get *)

\* ctx.exec.Lock()
GetLock(c) ==
    /\ CanCall(c)
    /\ CanLock(execLock)
    /\ execLock' = [execLock EXCEPT !.writer = c]
    /\ \E host \in Hosts : client' = [client EXCEPT ![c] = Entered("Get", host)]
    /\ UNCHANGED <<executors, stdouts, stderrs, lastSet, manifestVars, taskVars>>

\* e, ok := ctx.exec.executors[host]
GetRead(c) ==
    /\ client[c].op = "Get" /\ client[c].pc = "locked"
    /\ LET r == MapGet(executors, client[c].host, ZeroExecutor)
       IN  client' = [client EXCEPT ![c].e = r.v, ![c].ok = r.ok, ![c].pc = "read",
                                    ![c].expect = lastSet[client[c].host].executor]
    /\ UNCHANGED <<executors, stdouts, stderrs, execLock, lastSet, manifestVars, taskVars>>

\* Mutant: the lock is released on the way to the return only, not before the panic.
GetUnlockUnlessPanic(c) ==
    /\ client[c].op = "Get" /\ client[c].pc = "read"
    /\ execLock' = IF client[c].ok THEN [execLock EXCEPT !.writer = 0] ELSE execLock
    /\ client' = [client EXCEPT ![c].pc = "unlocked"]
    /\ UNCHANGED <<executors, stdouts, stderrs, lastSet, manifestVars, taskVars>>

\* ctx.exec.Unlock()
GetUnlock(c) ==
    /\ client[c].op = "Get" /\ client[c].pc = "read"
    /\ execLock' = [execLock EXCEPT !.writer = 0]
    /\ client' = [client EXCEPT ![c].pc = "unlocked"]
    /\ UNCHANGED <<executors, stdouts, stderrs, lastSet, manifestVars, taskVars>>

\* if !ok { panic("no init executor for " + host) }; return
GetReturn(c) ==
    /\ client[c].op = "Get" /\ client[c].pc = "unlocked"
    /\ client' = [client EXCEPT ![c] = IF ~client[c].ok THEN [@ EXCEPT !.pc = "panicked"]
                                                         ELSE IdleClient]
    /\ UNCHANGED <<executors, stdouts, stderrs, execLock, lastSet, manifestVars, taskVars>>

(* Context.GetExecutor *)

\* ctx.exec.RLock()
GetExecutorRLock(c) ==
    /\ CanCall(c)
    /\ CanRLock(execLock)
    /\ execLock' = [execLock EXCEPT !.readers = @ \cup {c}]
    /\ \E host \in Hosts : client' = [client EXCEPT ![c] = Entered("GetExecutor", host)]
    /\ UNCHANGED <<executors, stdouts, stderrs, lastSet, manifestVars, taskVars>>

\* e, ok = ctx.exec.executors[host]
GetExecutorRead(c) ==
    /\ client[c].op = "GetExecutor" /\ client[c].pc = "locked"
    /\ LET r == MapGet(executors, client[c].host, ZeroExecutor)
       IN  client' = [client EXCEPT ![c].e = r.v, ![c].ok = r.ok, ![c].pc = "read",
                                    ![c].expect = lastSet[client[c].host].executor]
    /\ UNCHANGED <<executors, stdouts, stderrs, execLock, lastSet, manifestVars, taskVars>>

\* ctx.exec.RUnlock(); return
GetExecutorRUnlock(c) ==
    /\ client[c].op = "GetExecutor" /\ client[c].pc = "read"
    /\ execLock' = [execLock EXCEPT !.readers = @ \ {c}]
    /\ client' = [client EXCEPT ![c] = IdleClient]
    /\ UNCHANGED <<executors, stdouts, stderrs, lastSet, manifestVars, taskVars>>

\* return e, ok -- the named results of GetExecutor (and e of Get) once read
ExecutorResult(c) == [v |-> client[c].e, ok |-> client[c].ok]

(* Context.SetExecutor *)

\* ctx.exec.Lock()
SetExecutorLock(c) ==
    /\ CanCall(c)
    /\ CanLock(execLock)
    /\ execLock' = [execLock EXCEPT !.writer = c]
    /\ \E host \in Hosts, e \in Executors :
         client' = [client EXCEPT ![c] = [Entered("SetExecutor", host) EXCEPT !.e = e]]
    /\ UNCHANGED <<executors, stdouts, stderrs, lastSet, manifestVars, taskVars>>

\* Mutant: an executor already registered for the host is kept.
SetExecutorWriteIfAbsent(c) ==
    /\ client[c].op = "SetExecutor" /\ client[c].pc = "locked"
    /\ executors' = IF client[c].host \in DOMAIN executors THEN executors
                    ELSE MapSet(executors, client[c].host, client[c].e)
    /\ lastSet' = [lastSet EXCEPT ![client[c].host].executor = <<client[c].e>>,
                                  ![client[c].host].overwritten =
                                      @ \/ lastSet[client[c].host].executor \notin {<<>>, <<client[c].e>>}]
    /\ client' = [client EXCEPT ![c].pc = "written"]
    /\ UNCHANGED <<stdouts, stderrs, execLock, manifestVars, taskVars>>

\* ctx.exec.executors[host] = e
SetExecutorWrite(c) ==
    /\ client[c].op = "SetExecutor" /\ client[c].pc = "locked"
    /\ executors' = MapSet(executors, client[c].host, client[c].e)
    /\ lastSet' = [lastSet EXCEPT ![client[c].host].executor = <<client[c].e>>,
                                  ![client[c].host].overwritten =
                                      @ \/ lastSet[client[c].host].executor \notin {<<>>, <<client[c].e>>}]
    /\ client' = [client EXCEPT ![c].pc = "written"]
    /\ UNCHANGED <<stdouts, stderrs, execLock, manifestVars, taskVars>>

\* ctx.exec.Unlock()
SetExecutorUnlock(c) ==
    /\ client[c].op = "SetExecutor" /\ client[c].pc = "written"
    /\ execLock' = [execLock EXCEPT !.writer = 0]
    /\ client' = [client EXCEPT ![c] = IdleClient]
    /\ UNCHANGED <<executors, stdouts, stderrs, lastSet, manifestVars, taskVars>>

(* Context.GetOutputs *)

\* Mutant: GetOutputs reads without waiting for the writer to unlock.
GetOutputsRLockNoWait(c) ==
    /\ CanCall(c)
    /\ execLock' = [execLock EXCEPT !.readers = @ \cup {c}]
    /\ \E host \in Hosts : client' = [client EXCEPT ![c] = Entered("GetOutputs", host)]
    /\ UNCHANGED <<executors, stdouts, stderrs, lastSet, manifestVars, taskVars>>

\* ctx.exec.RLock()
GetOutputsRLock(c) ==
    /\ CanCall(c)
    /\ CanRLock(execLock)
    /\ execLock' = [execLock EXCEPT !.readers = @ \cup {c}]
    /\ \E host \in Hosts : client' = [client EXCEPT ![c] = Entered("GetOutputs", host)]
    /\ UNCHANGED <<executors, stdouts, stderrs, lastSet, manifestVars, taskVars>>

\* Mutant: stdout is read from the stdouts map.
GetOutputsRead1Stdouts(c) ==
    /\ client[c].op = "GetOutputs" /\ client[c].pc = "locked"
    /\ LET r == MapGet(stdouts, client[c].host, NilBytes)
       IN  client' = [client EXCEPT ![c].stdout = r.v, ![c].ok1 = r.ok, ![c].pc = "read1"]
    /\ UNCHANGED <<executors, stdouts, stderrs, execLock, lastSet, manifestVars, taskVars>>

\* stdout, ok1 := ctx.exec.stderrs[host]
GetOutputsRead1(c) ==
    /\ client[c].op = "GetOutputs" /\ client[c].pc = "locked"
    /\ LET r == MapGet(stderrs, client[c].host, NilBytes)
       IN  client' = [client EXCEPT ![c].stdout = r.v, ![c].ok1 = r.ok, ![c].pc = "read1"]
    /\ UNCHANGED <<executors, stdouts, stderrs, execLock, lastSet, manifestVars, taskVars>>

\* stderr, ok2 := ctx.exec.stdouts[host]
GetOutputsRead2(c) ==
    /\ client[c].op = "GetOutputs" /\ client[c].pc = "read1"
    /\ LET r == MapGet(stdouts, client[c].host, NilBytes)
       IN  client' = [client EXCEPT ![c].stderr = r.v, ![c].ok2 = r.ok, ![c].pc = "read2",
                                    ![c].expect = lastSet[client[c].host].outputs]
    /\ UNCHANGED <<executors, stdouts, stderrs, execLock, lastSet, manifestVars, taskVars>>

\* ctx.exec.RUnlock(); return stdout, stderr, ok1 && ok2
GetOutputsRUnlock(c) ==
    /\ client[c].op = "GetOutputs" /\ client[c].pc = "read2"
    /\ execLock' = [execLock EXCEPT !.readers = @ \ {c}]
    /\ client' = [client EXCEPT ![c] = IdleClient]
    /\ UNCHANGED <<executors, stdouts, stderrs, lastSet, manifestVars, taskVars>>

\* return stdout, stderr, ok1 && ok2
GetOutputsResult(c) == <<client[c].stdout, client[c].stderr, client[c].ok1 /\ client[c].ok2>>

(* Context.SetOutputs *)

\* ctx.exec.Lock()
SetOutputsLock(c) ==
    /\ CanCall(c)
    /\ CanLock(execLock)
    /\ execLock' = [execLock EXCEPT !.writer = c]
    /\ \E host \in Hosts, stdout \in Bytes, stderr \in Bytes :
         /\ client' = [client EXCEPT ![c] = [Entered("SetOutputs", host) EXCEPT
                                                !.stdout = stdout, !.stderr = stderr]]
         /\ lastSet' = [lastSet EXCEPT ![host].writers = @ \cup {c}]
    /\ UNCHANGED <<executors, stdouts, stderrs, manifestVars, taskVars>>

\* ctx.exec.stderrs[host] = stdout
SetOutputsWrite1(c) ==
    /\ client[c].op = "SetOutputs" /\ client[c].pc = "locked"
    /\ stderrs' = MapSet(stderrs, client[c].host, client[c].stdout)
    /\ client' = [client EXCEPT ![c].pc = "written1"]
    /\ UNCHANGED <<executors, stdouts, execLock, lastSet, manifestVars, taskVars>>

\* ctx.exec.stdouts[host] = stderr
SetOutputsWrite2(c) ==
    /\ client[c].op = "SetOutputs" /\ client[c].pc = "written1"
    /\ stdouts' = MapSet(stdouts, client[c].host, client[c].stderr)
    /\ lastSet' = [lastSet EXCEPT ![client[c].host].outputs =
                      <<[stdout |-> client[c].stdout, stderr |-> client[c].stderr]>>]
    /\ client' = [client EXCEPT ![c].pc = "written2"]
    /\ UNCHANGED <<executors, stderrs, execLock, manifestVars, taskVars>>

\* ctx.exec.Unlock()
SetOutputsUnlock(c) ==
    /\ client[c].op = "SetOutputs" /\ client[c].pc = "written2"
    /\ execLock' = [execLock EXCEPT !.writer = 0]
    /\ client' = [client EXCEPT ![c] = IdleClient]
    /\ UNCHANGED <<executors, stdouts, stderrs, lastSet, manifestVars, taskVars>>

(* Context.GetManifest *)

\* ctx.manifestCache.RLock()
GetManifestRLock(c) ==
    /\ CanCall(c)
    /\ CanRLock(manifestLock)
    /\ manifestLock' = [manifestLock EXCEPT !.readers = @ \cup {c}]
    /\ \E comp \in Components :
         client' = [client EXCEPT ![c] = [Entered("GetManifest", "h1") EXCEPT !.comp = comp]]
    /\ UNCHANGED <<executors, stdouts, stderrs, execLock, manifests, lastSet, taskVars>>

\* m, ok = ctx.manifestCache.manifests[comp]
GetManifestRead(c) ==
    /\ client[c].op = "GetManifest" /\ client[c].pc = "locked"
    /\ LET r == MapGet(manifests, client[c].comp, ZeroManifest)
       IN  client' = [client EXCEPT ![c].m = r.v, ![c].ok = r.ok, ![c].pc = "read"]
    /\ UNCHANGED <<executors, stdouts, stderrs, execLock, manifestVars, lastSet, taskVars>>

\* ctx.manifestCache.RUnlock(); return
GetManifestRUnlock(c) ==
    /\ client[c].op = "GetManifest" /\ client[c].pc = "read"
    /\ manifestLock' = [manifestLock EXCEPT !.readers = @ \ {c}]
    /\ client' = [client EXCEPT ![c] = IdleClient]
    /\ UNCHANGED <<executors, stdouts, stderrs, execLock, manifests, lastSet, taskVars>>

(* Context.SetManifest *)

\* Mutant: SetManifest takes the lock of ctx.exec.
SetManifestLockExec(c) ==
    /\ CanCall(c)
    /\ CanLock(execLock)
    /\ execLock' = [execLock EXCEPT !.writer = c]
    /\ \E comp \in Components, m \in Manifests :
         client' = [client EXCEPT ![c] =
                       [Entered("SetManifest", "h1") EXCEPT !.comp = comp, !.m = m]]
    /\ UNCHANGED <<executors, stdouts, stderrs, manifestVars, lastSet, taskVars>>

\* ctx.manifestCache.Lock()
SetManifestLock(c) ==
    /\ CanCall(c)
    /\ CanLock(manifestLock)
    /\ manifestLock' = [manifestLock EXCEPT !.writer = c]
    /\ \E comp \in Components, m \in Manifests :
         client' = [client EXCEPT ![c] =
                       [Entered("SetManifest", "h1") EXCEPT !.comp = comp, !.m = m]]
    /\ UNCHANGED <<executors, stdouts, stderrs, execLock, manifests, lastSet, taskVars>>

\* ctx.manifestCache.manifests[comp] = m
SetManifestWrite(c) ==
    /\ client[c].op = "SetManifest" /\ client[c].pc = "locked"
    /\ manifests' = MapSet(manifests, client[c].comp, client[c].m)
    /\ client' = [client EXCEPT ![c].pc = "written"]
    /\ UNCHANGED <<executors, stdouts, stderrs, execLock, manifestLock, lastSet, taskVars>>

\* ctx.manifestCache.Unlock()
SetManifestUnlock(c) ==
    /\ client[c].op = "SetManifest" /\ client[c].pc = "written"
    /\ manifestLock' = [manifestLock EXCEPT !.writer = 0]
    /\ client' = [client EXCEPT ![c] = IdleClient]
    /\ UNCHANGED <<executors, stdouts, stderrs, execLock, manifests, lastSet, taskVars>>

\* Client threads calling the accessors of one shared Context, no task running and
\* none to be run.
InitContext ==
    /\ tree = <<Leaf>>
    /\ stack = <<<<>>>>
    /\ ret = <<Nil>>
    /\ trace = <<<<>>>>
    /\ firstError = <<Nil>>
    /\ mu = <<0>>
    /\ wg = <<0>>
    /\ phase = <<"Execute", "Rollback">>
    /\ InitCtx(NClients)

\* The executor registry under concurrent Get, GetExecutor and SetExecutor.
NextRegistry ==
    \/ \E c \in Clients : GetLock(c)
    \/ \E c \in Clients : GetRead(c)
    \/ \E c \in Clients : GetUnlock(c)
    \/ \E c \in Clients : GetReturn(c)
    \/ \E c \in Clients : GetExecutorRLock(c)
    \/ \E c \in Clients : GetExecutorRead(c)
    \/ \E c \in Clients : GetExecutorRUnlock(c)
    \/ \E c \in Clients : SetExecutorLock(c)
    \/ \E c \in Clients : SetExecutorWrite(c)
    \/ \E c \in Clients : SetExecutorUnlock(c)

SpecRegistry == InitContext /\ [][NextRegistry]_vars

\* The output cache under concurrent GetOutputs and SetOutputs.
NextOutputs ==
    \/ \E c \in Clients : GetOutputsRLock(c)
    \/ \E c \in Clients : GetOutputsRead1(c)
    \/ \E c \in Clients : GetOutputsRead2(c)
    \/ \E c \in Clients : GetOutputsRUnlock(c)
    \/ \E c \in Clients : SetOutputsLock(c)
    \/ \E c \in Clients : SetOutputsWrite1(c)
    \/ \E c \in Clients : SetOutputsWrite2(c)
    \/ \E c \in Clients : SetOutputsUnlock(c)

SpecOutputs == InitContext /\ [][NextOutputs]_vars

\* The three stores of the Context used concurrently: Get on the registry, GetOutputs
\* on the output cache, GetManifest and SetManifest on the manifest cache.
NextStores ==
    \/ \E c \in Clients : GetLock(c)
    \/ \E c \in Clients : GetRead(c)
    \/ \E c \in Clients : GetUnlock(c)
    \/ \E c \in Clients : GetReturn(c)
    \/ \E c \in Clients : GetOutputsRLock(c)
    \/ \E c \in Clients : GetOutputsRead1(c)
    \/ \E c \in Clients : GetOutputsRead2(c)
    \/ \E c \in Clients : GetOutputsRUnlock(c)
    \/ \E c \in Clients : GetManifestRLock(c)
    \/ \E c \in Clients : GetManifestRead(c)
    \/ \E c \in Clients : GetManifestRUnlock(c)
    \/ \E c \in Clients : SetManifestLock(c)
    \/ \E c \in Clients : SetManifestWrite(c)
    \/ \E c \in Clients : SetManifestUnlock(c)

SpecStores == InitContext /\ [][NextStores]_vars

------------------------------------------------------------------------(* The display wrappers: tasks whose Execute and Rollback are theirs, opaque here *)

DisplayKinds == {"StepDisplay", "ParallelStepDisplay"}

DisplayExecute(th) ==
    /\ stack[th] # <<>>
    /\ tree[Top(th).task].kind \in DisplayKinds
    /\ Top(th).op = "Execute"
    /\ \E e \in LeafExecuteResults(Top(th).task) : Return(th, e)
    /\ UNCHANGED <<tree, firstError, mu, wg, phase, ctxVars>>

DisplayRollback(th) ==
    /\ stack[th] # <<>>
    /\ tree[Top(th).task].kind \in DisplayKinds
    /\ Top(th).op = "Rollback"
    /\ \E e \in LeafRollbackResults(Top(th).task) : Return(th, e)
    /\ UNCHANGED <<tree, firstError, mu, wg, phase, ctxVars>>

-----
(* Running a task tree *)

InitTask(t) ==
    /\ tree = t
    /\ stack = [n \in DOMAIN t |-> <<>>]
    /\ ret = [n \in DOMAIN t |-> Nil]
    /\ trace = [n \in DOMAIN t |-> <<>>]
    /\ firstError = [n \in DOMAIN t |-> Nil]
    /\ mu = [n \in DOMAIN t |-> 0]
    /\ wg = [n \in DOMAIN t |-> 0]
    /\ phase = <<>>

Init ==
    /\ \E t \in Trees : InitTask(t)
    /\ InitCtx(0)

Next ==
    \/ CallerExecute
    \/ CallerRollback
    \/ \E th \in Nodes : LeafExecute(th)
    \/ \E th \in Nodes : LeafRollback(th)
    \/ \E th \in Nodes : SerialExecuteBegin(th)
    \/ \E th \in Nodes : SerialExecuteCall(th)
    \/ \E th \in Nodes : SerialExecuteFinish(th)
    \/ \E th \in Nodes : SerialExecuteCheck(th)
    \/ \E th \in Nodes : SerialExecuteReturn(th)
    \/ \E th \in Nodes : SerialRollbackCall(th)
    \/ \E th \in Nodes : SerialRollbackCheck(th)
    \/ \E th \in Nodes : SerialRollbackReturn(th)
    \/ \E th \in Nodes : ParallelExecuteEntry(th)
    \/ \E th \in Nodes : ParallelExecuteGo(th)
    \/ \E th \in Nodes : ParallelExecuteWait(th)
    \/ \E th \in Nodes : GoExecuteBegin(th)
    \/ \E th \in Nodes : GoExecuteCall(th)
    \/ \E th \in Nodes : GoExecuteFinish(th)
    \/ \E th \in Nodes : GoExecuteLock(th)
    \/ \E th \in Nodes : GoExecuteRecord(th)
    \/ \E th \in Nodes : GoExecuteUnlock(th)
    \/ \E th \in Nodes : GoExecuteDone(th)
    \/ \E th \in Nodes : ParallelRollbackEntry(th)
    \/ \E th \in Nodes : ParallelRollbackGo(th)
    \/ \E th \in Nodes : ParallelRollbackWait(th)
    \/ \E th \in Nodes : GoRollbackCall(th)
    \/ \E th \in Nodes : GoRollbackCheck(th)
    \/ \E th \in Nodes : GoRollbackLock(th)
    \/ \E th \in Nodes : GoRollbackRecord(th)
    \/ \E th \in Nodes : GoRollbackUnlock(th)
    \/ \E th \in Nodes : GoRollbackDone(th)

Spec == Init /\ [][Next]_vars

\* The trees of two branches under a Parallel, the branches being the same composite
\* but for their hideDetailDisplay flags: two Serial of two leaves, two Parallel of one.
BranchTrees ==
    UNION {
        { <<Parallel(h, <<2, 3>>), Serial(FALSE, <<4, 5>>), Serial(TRUE, <<6, 7>>),
            Leaf, Leaf, Leaf, Leaf>>,
          <<Parallel(h, <<2, 3>>), Parallel(FALSE, <<4>>), Parallel(TRUE, <<5>>),
            Leaf, Leaf>> }
        : h \in BOOLEAN }

InitBranches ==
    /\ \E t \in BranchTrees : InitTask(t)
    /\ InitCtx(0)

SpecBranches == InitBranches /\ [][Next]_vars

\* The trees whose composites dispatch children of every kind, a composite child having
\* the opposite flag of its parent.
DisplayTrees ==
    UNION {
        { <<Serial(h, <<2, 3, 4, 5>>), Leaf, StepDisplay, ParallelStepDisplay,
            Serial(~h, <<6>>), Leaf>>,
          <<Serial(h, <<2, 3>>), Parallel(~h, <<4, 5>>), Leaf, Leaf, StepDisplay>>,
          <<Parallel(h, <<2, 3>>), ParallelStepDisplay, Serial(~h, <<4>>), Leaf>>,
          <<Parallel(h, <<2, 3>>), Leaf, Parallel(~h, <<4>>), Leaf>> }
        : h \in BOOLEAN }

InitDisplay ==
    /\ \E t \in DisplayTrees : InitTask(t)
    /\ InitCtx(0)

NextDisplay ==
    \/ Next
    \/ \E th \in Nodes : DisplayExecute(th)
    \/ \E th \in Nodes : DisplayRollback(th)

SpecDisplay == InitDisplay /\ [][NextDisplay]_vars

\* The whole of the file: a task tree run on a fresh Context, or client threads on the
\* executor registry of a Context.
InitProgram == Init \/ InitContext

NextProgram == Next \/ NextRegistry

SpecProgram == InitProgram /\ [][NextProgram]_vars

-----------------------------------------------------------------------------
(* Leaves that call the accessors of the Context, under a fair scheduler *)

\* The accessors a leaf may call from its Execute or Rollback: one per lock and mode.
LeafAccessors == {"SetExecutor", "GetOutputs", "GetManifest", "SetManifest"}

\* The accessor takes the lock of ctx.manifestCache, not the one of ctx.exec.
OnManifestCache(a) == a \in {"GetManifest", "SetManifest"}

\* The accessor takes its lock with Lock(), not RLock().
Exclusive(a) == a \in {"Get", "SetExecutor", "SetOutputs", "SetManifest"}

\* The lock with th added to its holders, as Lock() or RLock() of accessor a leaves it.
Acquired(l, a, th) ==
    IF Exclusive(a) THEN [l EXCEPT !.writer = th] ELSE [l EXCEPT !.readers = @ \cup {th}]

\* The lock as Unlock() or RUnlock() of accessor a leaves it.
Released(l, a, th) ==
    IF Exclusive(a) THEN [l EXCEPT !.writer = 0] ELSE [l EXCEPT !.readers = @ \ {th}]

\* The leaf running on thread th calls an accessor, once in its Execute or Rollback.
LeafAccessorCall(th) ==
    /\ Running(th, "Leaf", "Execute", "entry") \/ Running(th, "Leaf", "Rollback", "entry")
    /\ stack' = [stack EXCEPT ![th] = Goto(@, "called", 1)]
    /\ \E a \in LeafAccessors : client' = [client EXCEPT ![th].op = a, ![th].pc = "call"]
    /\ UNCHANGED <<tree, ret, trace, firstError, mu, wg, phase>>
    /\ UNCHANGED <<executors, stdouts, stderrs, execLock, manifestVars, lastSet>>

\* Mutant: the accessor returns with its lock held.
LeafAccessorKeepsLock(th) ==
    /\ client[th].pc = "locked"
    /\ client' = [client EXCEPT ![th] = IdleClient]
    /\ UNCHANGED <<executors, stdouts, stderrs, execLock, manifestVars, lastSet, taskVars>>

\* ctx.exec.Lock(), ctx.exec.RLock(), ctx.manifestCache.Lock(), ctx.manifestCache.RLock()
LeafAccessorLock(th) ==
    /\ client[th].pc = "call"
    /\ LET a == client[th].op
       IN  IF OnManifestCache(a)
           THEN /\ IF Exclusive(a) THEN CanLock(manifestLock) ELSE CanRLock(manifestLock)
                /\ manifestLock' = Acquired(manifestLock, a, th)
                /\ UNCHANGED execLock
           ELSE /\ IF Exclusive(a) THEN CanLock(execLock) ELSE CanRLock(execLock)
                /\ execLock' = Acquired(execLock, a, th)
                /\ UNCHANGED manifestLock
    /\ client' = [client EXCEPT ![th].pc = "locked"]
    /\ UNCHANGED <<executors, stdouts, stderrs, manifests, lastSet, taskVars>>

\* the map access, then Unlock() or RUnlock() and the return to the leaf
LeafAccessorUnlock(th) ==
    /\ client[th].pc = "locked"
    /\ LET a == client[th].op
       IN  IF OnManifestCache(a)
           THEN manifestLock' = Released(manifestLock, a, th) /\ UNCHANGED execLock
           ELSE execLock' = Released(execLock, a, th) /\ UNCHANGED manifestLock
    /\ client' = [client EXCEPT ![th] = IdleClient]
    /\ UNCHANGED <<executors, stdouts, stderrs, manifests, lastSet, taskVars>>

\* The trees run under the fair scheduler: leaves in a row under a Serial, a Parallel
\* inside a Serial and a Serial inside a Parallel.
LiveTrees ==
    { FlatTree(Serial(FALSE, <<>>), NSerial),
      <<Serial(FALSE, <<2, 3>>), Leaf, Parallel(FALSE, <<4, 5>>), Leaf, Leaf>>,
      <<Parallel(FALSE, <<2, 3>>), Serial(FALSE, <<4, 5>>), Leaf, Leaf, Leaf>> }

\* Every thread of the tree may call the Context.
InitLive ==
    /\ \E t \in LiveTrees : InitTask(t)
    /\ executors = EmptyMap
    /\ stdouts = EmptyMap
    /\ stderrs = EmptyMap
    /\ execLock = [writer |-> 0, readers |-> {}]
    /\ manifests = EmptyMap
    /\ manifestLock = [writer |-> 0, readers |-> {}]
    /\ client = [th \in Nodes |-> IdleClient]
    /\ lastSet = NoSet

NextLive ==
    \/ Next
    \/ \E th \in Nodes : LeafAccessorCall(th)
    \/ \E th \in Nodes : LeafAccessorLock(th)
    \/ \E th \in Nodes : LeafAccessorUnlock(th)

\* A step of thread th: of the frame it runs or of the accessor it is in.
ThreadNext(th) ==
    \/ LeafExecute(th) \/ LeafRollback(th)
    \/ SerialExecuteBegin(th) \/ SerialExecuteCall(th) \/ SerialExecuteFinish(th)
    \/ SerialExecuteCheck(th) \/ SerialExecuteReturn(th)
    \/ SerialRollbackCall(th) \/ SerialRollbackCheck(th) \/ SerialRollbackReturn(th)
    \/ ParallelExecuteEntry(th) \/ ParallelExecuteGo(th) \/ ParallelExecuteWait(th)
    \/ GoExecuteBegin(th) \/ GoExecuteCall(th) \/ GoExecuteFinish(th)
    \/ GoExecuteLock(th) \/ GoExecuteRecord(th) \/ GoExecuteUnlock(th)
    \/ GoExecuteDone(th)
    \/ ParallelRollbackEntry(th) \/ ParallelRollbackGo(th) \/ ParallelRollbackWait(th)
    \/ GoRollbackCall(th) \/ GoRollbackCheck(th) \/ GoRollbackLock(th)
    \/ GoRollbackRecord(th) \/ GoRollbackUnlock(th) \/ GoRollbackDone(th)
    \/ LeafAccessorCall(th) \/ LeafAccessorLock(th) \/ LeafAccessorUnlock(th)

\* The Go scheduler: while some thread can take a step, some thread does take one.
Fairness == WF_vars(\E th \in Nodes : ThreadNext(th))

SpecLive == InitLive /\ [][NextLive]_vars /\ Fairness

-----------------------------------------------------------------------------
(* Reading the traces *)

\* The records of one type about op on task t. Whatever is done to a task is done by
\* the thread that runs it, so they are in that thread's trace.
Recs(type, op, t) ==
    LET Is(r) == r.type = type /\ r.op = op /\ r.task = t
    IN  SelectSeq(trace[ThreadOf(t)], Is)

Count(type, op, t) == Len(Recs(type, op, t))

Calls(op, t) == Count("Call", op, t)

Returns(op, t) == Count("Return", op, t)

Begins(t) == Count("Begin", "event", t)

Finishes(t) == Count("Finish", "event", t)

\* Some other thread than the one that runs t published an event about t.
PublishedElsewhere(t) ==
    \E th \in Nodes \ {ThreadOf(t)} : \E i \in 1..Len(trace[th]) :
        trace[th][i].task = t /\ trace[th][i].type \in {"Begin", "Finish"}

\* The errors the calls of op on t have returned (one, a call being made once).
ReturnErrs(op, t) == LET R == Recs("Return", op, t) IN {R[i].err : i \in 1..Len(R)}

Returned(op, t) == ReturnErrs(op, t) # {}

Failed(op, t) == \E e \in ReturnErrs(op, t) : e # Nil

\* What the guarded sections of child t saw in firstError.
Saw(op, t) == LET R == Recs("Record", op, t) IN {R[i].err : i \in 1..Len(R)}

SerialNodes == {s \in Nodes : tree[s].kind = "Serial"}

ParallelNodes == {p \in Nodes : tree[p].kind = "Parallel"}

\* The calls of op that composite s made on its children and their returns, in order.
ChildOps(s, op) ==
    LET About(r) == r.type \in {"Call", "Return"} /\ r.op = op /\ r.task \in Children(s)
    IN  SelectSeq(trace[ThreadOf(s)], About)

\* The calls of op that composite s made on its children, in order.
ChildCalls(s, op) ==
    LET About(r) == r.type = "Call" /\ r.op = op /\ r.task \in Children(s)
    IN  SelectSeq(trace[ThreadOf(s)], About)

\* The events thread th published about the tasks of ts and its Execute calls on them.
Dispatch(th, ts) ==
    LET About(r) == /\ r.task \in ts
                    /\ \/ r.type \in {"Begin", "Finish"}
                       \/ r.type \in {"Call", "Return"} /\ r.op = "Execute"
    IN  SelectSeq(trace[th], About)

\* The positions of the failing children of p, for op.
FailedAt(p, op) == {j \in 1..Len(tree[p].inner) : Failed(op, tree[p].inner[j])}

Lowest(S) == CHOOSE x \in S : \A y \in S : x <= y

-----------------------------------------------------------------------------
(* Claims *)

\* C1: Serial.Execute calls Execute on its children in list order, each once, the next
\* only after the one before returned nil; it calls nothing after the first child that
\* fails and returns exactly that child's error; when no child fails it has executed
\* every child and returns nil.
C1_SerialExecuteStopsAtFirstFailure ==
    \A s \in SerialNodes :
        LET X == ChildOps(s, "Execute")
            inner == tree[s].inner
        IN  /\ \A j \in 1..Len(X) :
                  /\ j <= 2 * Len(inner)
                  /\ X[j].task = inner[(j + 1) \div 2]
                  /\ X[j].type = IF j % 2 = 1 THEN "Call" ELSE "Return"
                  /\ (j % 2 = 0 /\ j < Len(X)) => X[j].err = Nil
            /\ \A e \in ReturnErrs("Execute", s) :
                  /\ Len(X) > 0
                  /\ X[Len(X)].type = "Return"
                  /\ IF X[Len(X)].err # Nil
                     THEN e = X[Len(X)].err
                     ELSE Len(X) = 2 * Len(inner) /\ e = Nil

\* C1 witness: a Serial of at least three children returned the error of its second
\* child; the first was executed, the third never.
C1_Witness ==
    \E s \in SerialNodes :
        /\ Len(tree[s].inner) >= 3
        /\ ReturnErrs("Execute", s) = {StepErr("Execute", tree[s].inner[2])}
        /\ Calls("Execute", tree[s].inner[1]) = 1
        /\ Calls("Execute", tree[s].inner[3]) = 0

\* C2: Parallel.Execute calls Execute at most once on a child at any time, and when it
\* has returned every child's Execute was called once and has returned and no goroutine
\* of it is left, whatever the other children returned.
C2_ParallelExecuteRunsEveryChild ==
    \A p \in ParallelNodes :
        /\ \A c \in Children(p) :
              Calls("Execute", c) <= 1 /\ Returns("Execute", c) <= Calls("Execute", c)
        /\ Returned("Execute", p) =>
              \A c \in Children(p) :
                  /\ Calls("Execute", c) = 1
                  /\ Returns("Execute", c) = 1
                  /\ ~(stack[c] # <<>> /\ stack[c][1].op = "goExecute")

\* C2 witness: Parallel.Execute returned; its first child failed and its second
\* child was executed all the same and returned nil.
C2_Witness ==
    \E p \in ParallelNodes :
        /\ Returned("Execute", p)
        /\ Failed("Execute", tree[p].inner[1])
        /\ ReturnErrs("Execute", tree[p].inner[2]) = {Nil}

\* C3 as claimed: when children fail, Parallel.Execute and Parallel.Rollback return the
\* error of the failing child of lowest list position.
C3_LowestIndexErrorReturned ==
    \A p \in ParallelNodes : \A op \in {"Execute", "Rollback"} :
        \A e \in ReturnErrs(op, p) :
            FailedAt(p, op) # {} =>
                e \in ReturnErrs(op, tree[p].inner[Lowest(FailedAt(p, op))])

\* C3 amended: when children fail, Parallel.Execute and Parallel.Rollback return the
\* error of the one failing child whose guarded section found firstError nil, the first
\* to take the mutex; every other failing child found firstError set.
C3_FirstRecordedErrorReturned ==
    \A p \in ParallelNodes : \A op \in {"Execute", "Rollback"} :
        \A e \in ReturnErrs(op, p) :
            IF FailedAt(p, op) = {}
            THEN e = Nil
            ELSE \E j \in FailedAt(p, op) :
                    /\ Saw(op, tree[p].inner[j]) = {Nil}
                    /\ e \in ReturnErrs(op, tree[p].inner[j])
                    /\ \A k \in FailedAt(p, op) \ {j} : Nil \notin Saw(op, tree[p].inner[k])

\* C3 witness: the children at positions 1 and 2 both failed and Parallel.Execute
\* returned the error of position 2.
C3_Witness ==
    \E p \in ParallelNodes :
        /\ {1, 2} \subseteq FailedAt(p, "Execute")
        /\ ReturnErrs("Execute", p) = ReturnErrs("Execute", tree[p].inner[2])
        /\ ReturnErrs("Execute", p) # ReturnErrs("Execute", tree[p].inner[1])

\* C4 as claimed: after a Serial.Execute that failed, Serial.Rollback calls Rollback
\* only on children whose Execute had completed successfully.
C4_RollsBackOnlyCompletedChildren ==
    \A s \in SerialNodes : \A c \in Children(s) :
        (Failed("Execute", s) /\ Calls("Rollback", c) >= 1) => Nil \in ReturnErrs("Execute", c)

\* C4 amended: after a Serial.Execute that failed at any child, Serial.Rollback calls
\* Rollback on the children in strict reverse list order starting from the last child
\* of the list, the failed child and the children never executed included; when it
\* returns nil it has rolled back all N children.
C4_RollsBackAllChildrenInReverse ==
    \A s \in SerialNodes :
        Failed("Execute", s) =>
            LET R == ChildCalls(s, "Rollback")
                inner == tree[s].inner
            IN  /\ \A j \in 1..Len(R) : j <= Len(inner) /\ R[j].task = inner[Len(inner) + 1 - j]
                /\ Nil \in ReturnErrs("Rollback", s) => Len(R) = Len(inner)

\* C4 witness: Serial.Execute failed at its second child of at least three (m = 1) and
\* the Rollback that followed returned nil, the last child, never executed, rolled back.
C4_Witness ==
    \E s \in SerialNodes :
        /\ Len(tree[s].inner) >= 3
        /\ Failed("Execute", tree[s].inner[2])
        /\ ReturnErrs("Rollback", s) = {Nil}
        /\ Calls("Execute", tree[s].inner[Len(tree[s].inner)]) = 0
        /\ Calls("Rollback", tree[s].inner[Len(tree[s].inner)]) = 1

\* C5: Serial.Rollback calls Rollback on its children in strict reverse list order,
\* each once, the next only after the one before returned nil; it calls nothing after
\* the first child whose Rollback fails (ErrUnsupportedRollback included) and returns
\* exactly that child's error.
C5_SerialRollbackStopsAtFirstError ==
    \A s \in SerialNodes :
        LET X == ChildOps(s, "Rollback")
            inner == tree[s].inner
        IN  /\ \A j \in 1..Len(X) :
                  /\ j <= 2 * Len(inner)
                  /\ X[j].task = inner[Len(inner) + 1 - ((j + 1) \div 2)]
                  /\ X[j].type = IF j % 2 = 1 THEN "Call" ELSE "Return"
                  /\ (j % 2 = 0 /\ j < Len(X)) => X[j].err = Nil
            /\ \A e \in ReturnErrs("Rollback", s) :
                  /\ Len(X) > 0
                  /\ X[Len(X)].type = "Return"
                  /\ IF X[Len(X)].err # Nil
                     THEN e = X[Len(X)].err
                     ELSE Len(X) = 2 * Len(inner) /\ e = Nil

\* C5 witness: the last child rolled back, the one before it reported
\* ErrUnsupportedRollback, Serial.Rollback returned that and the first child was
\* never rolled back.
C5_Witness ==
    \E s \in SerialNodes :
        LET n == Len(tree[s].inner)
        IN  /\ n >= 3
            /\ ReturnErrs("Rollback", tree[s].inner[n]) = {Nil}
            /\ ReturnErrs("Rollback", tree[s].inner[n - 1]) = {ErrUnsupportedRollback}
            /\ ReturnErrs("Rollback", s) = {ErrUnsupportedRollback}
            /\ Calls("Rollback", tree[s].inner[1]) = 0

\* C6: Parallel.Rollback calls Rollback at most once on a child at any time, and when
\* it has returned every child's Rollback was called once and has returned and no
\* goroutine of it is left, whether the child was executed or not and whatever the
\* other rollbacks returned.
C6_ParallelRollbackRunsEveryChild ==
    \A p \in ParallelNodes :
        /\ \A c \in Children(p) :
              Calls("Rollback", c) <= 1 /\ Returns("Rollback", c) <= Calls("Rollback", c)
        /\ Returned("Rollback", p) =>
              \A c \in Children(p) :
                  /\ Calls("Rollback", c) = 1
                  /\ Returns("Rollback", c) = 1
                  /\ stack[c] = <<>>

\* C6 witness: Parallel.Rollback returned; no child was ever executed, the first
\* child's Rollback failed and the second child's Rollback returned nil.
C6_Witness ==
    \E p \in ParallelNodes :
        /\ Returned("Rollback", p)
        /\ \A c \in Children(p) : Calls("Execute", c) = 0
        /\ Failed("Rollback", tree[p].inner[1])
        /\ ReturnErrs("Rollback", tree[p].inner[2]) = {Nil}

\* C9 as claimed: when Serial.Execute has returned, one Begin and one Finish event
\* were published for each of its N children.
C9_NBeginAndNFinishEvents ==
    \A s \in SerialNodes :
        Returned("Execute", s) =>
            \A c \in Children(s) : Begins(c) = 1 /\ Finishes(c) = 1

\* C9 amended: Serial.Execute publishes one Begin and one Finish event for each child
\* it executes -- N of each when no child fails, k of each when child k is the first to
\* fail -- in task order: Begin of child i, child i's Execute, Finish of child i with
\* the error child i's Execute returned, all before Begin of child i+1.
C9_EventsOfExecutedChildrenInOrder ==
    \A s \in SerialNodes :
        LET Y == Dispatch(ThreadOf(s), Children(s))
            inner == tree[s].inner
        IN  /\ \A j \in 1..Len(Y) :
                  /\ j <= 4 * Len(inner)
                  /\ Y[j].task = inner[(j + 3) \div 4]
                  /\ Y[j].type = <<"Begin", "Call", "Return", "Finish">>[((j - 1) % 4) + 1]
                  /\ Y[j].type = "Finish" => Y[j].err = Y[j - 1].err
            /\ \A c \in Children(s) : Begins(c) <= 1 /\ Finishes(c) <= 1
            /\ Returned("Execute", s) =>
                  /\ Len(Y) % 4 = 0
                  /\ \A c \in Children(s) :
                        /\ Begins(c) = Calls("Execute", c)
                        /\ Finishes(c) = Calls("Execute", c)
                  /\ ~Failed("Execute", s) => Len(Y) = 4 * Len(inner)

\* C9 witness: a Serial of at least three children returned the error of its third
\* child: three Begin and three Finish events, the third Finish carrying that error.
C9_Witness ==
    \E s \in SerialNodes :
        LET Y == Dispatch(ThreadOf(s), Children(s))
        IN  /\ Len(tree[s].inner) >= 3
            /\ ReturnErrs("Execute", s) = {StepErr("Execute", tree[s].inner[3])}
            /\ Len(Y) = 12
            /\ Y[12] = FinishRec(tree[s].inner[3], StepErr("Execute", tree[s].inner[3]))
            /\ Y[8] = FinishRec(tree[s].inner[2], Nil)

\* C10: in Parallel.Execute the goroutine of a child, leaf or composite, publishes one
\* Begin event for it, then calls its Execute, then publishes one Finish event with the
\* error that call returned; nobody else publishes events for the child, and all four
\* steps are done for every child when Parallel.Execute returns.
C10_ParallelAnnouncesEveryChildOnce ==
    \A p \in ParallelNodes :
        \A c \in Children(p) :
            LET Y == Dispatch(c, {c})
            IN  /\ \A j \in 1..Len(Y) :
                      /\ j <= 4
                      /\ Y[j].type = <<"Begin", "Call", "Return", "Finish">>[j]
                      /\ Y[j].type = "Finish" => Y[j].err = Y[j - 1].err
                /\ ~PublishedElsewhere(c)
                /\ Returned("Execute", p) => Len(Y) = 4

\* C10 witness: Parallel.Execute returned; its first child is a composite that failed,
\* announced with its error, its second child a leaf that succeeded, announced with nil.
C10_Witness ==
    \E p \in ParallelNodes :
        LET c == tree[p].inner[1]
            d == tree[p].inner[2]
        IN  /\ Returned("Execute", p)
            /\ isDisplayTask(c)
            /\ Failed("Execute", c)
            /\ Dispatch(c, {c})[4].err # Nil
            /\ ~isDisplayTask(d)
            /\ Dispatch(d, {d})[4] = FinishRec(d, Nil)

-----------------------------------------------------------------------------
(* Claims about the Context *)

\* What a lookup gives when the last SetExecutor on the host passed x (<<>>: none did).
Registered(x) ==
    IF x = <<>> THEN [v |-> ZeroExecutor, ok |-> FALSE] ELSE [v |-> x[1], ok |-> TRUE]

\* The results of the lookups in progress are those of the most recent SetExecutor.
LookupsSeeLastSetExecutor ==
    \A c \in Clients :
        (client[c].op \in {"Get", "GetExecutor"} /\ client[c].pc \in {"read", "unlocked", "panicked"})
            => ExecutorResult(c) = Registered(client[c].expect)

\* Get leaves by its panic exactly when the host was not registered.
GetPanicsIffUnregistered ==
    \A c \in Clients :
        (client[c].op = "Get" /\ client[c].pc = "unlocked" /\ client'[c] # client[c])
            => (client'[c].pc = "panicked" <=> client[c].expect = <<>>)

\* C7: GetExecutor(h) and Get(h) read the executor of the most recent SetExecutor(h, e);
\* GetExecutor returns (e, true), or (zero value, false) when no SetExecutor(h, .) was
\* made; Get returns e when h is registered and panics exactly when it is not.
C7_RegistryReturnsLastSetExecutor ==
    [](LookupsSeeLastSetExecutor) /\ [][GetPanicsIffUnregistered]_vars

\* C7 witness: a GetExecutor is returning ("e1", true) for a host whose executor was
\* replaced by a later SetExecutor, and a Get of a host never registered has panicked.
C7_Witness ==
    \E c, d \in Clients :
        /\ client[c].op = "GetExecutor" /\ client[c].pc = "read"
        /\ lastSet[client[c].host].overwritten
        /\ ExecutorResult(c) = [v |-> "e1", ok |-> TRUE]
        /\ client[d].op = "Get" /\ client[d].pc = "panicked"
        /\ lastSet[client[d].host].executor = <<>>

\* C8: a thread that is the only one to call SetOutputs on its host gets from
\* GetOutputs(host) the pair of its last SetOutputs(host, out, err), out first and err
\* second, and found = true, whatever the other threads do on other hosts.
C8_OwnOutputsReadBack ==
    \A c \in Clients :
        (/\ client[c].op = "GetOutputs"
         /\ client[c].pc = "read2"
         /\ lastSet[client[c].host].writers = {c})
            => /\ lastSet[client[c].host].outputs # <<>>
               /\ GetOutputsResult(c) = <<lastSet[client[c].host].outputs[1].stdout,
                                          lastSet[client[c].host].outputs[1].stderr, TRUE>>

\* C8 witness: a thread is returning ("a", "b", true) for the host it alone wrote,
\* after another thread wrote ("b", "a") for the other host.
C8_Witness ==
    \E c, d \in Clients :
        /\ c # d
        /\ client[c].op = "GetOutputs" /\ client[c].pc = "read2"
        /\ lastSet[client[c].host].writers = {c}
        /\ GetOutputsResult(c) = <<"a", "b", TRUE>>
        /\ \E h \in Hosts \ {client[c].host} :
              /\ lastSet[h].writers = {d}
              /\ lastSet[h].outputs = <<[stdout |-> "b", stderr |-> "a"]>>


\* The Parallel composites whose children are all Serial composites.
BranchingNodes == {p \in ParallelNodes : Children(p) \subseteq SerialNodes}

\* The positions of the children of s that were executed and failed.
OwnFailures(s) == {j \in 1..Len(tree[s].inner) : Failed("Execute", tree[s].inner[j])}

\* C11: under a Parallel whose children are Serial composites, each branch calls Execute
\* on its own children in list order, child i+1 never before child i returned, and a
\* failure stops only the branch it is in: when Parallel.Execute has returned, every
\* branch has executed its children up to its own first failure, or all of them when
\* none of its own failed, whatever the other branches did.
C11_BranchesFailIndependently ==
    \A p \in BranchingNodes : \A s \in Children(p) :
        LET X == ChildOps(s, "Execute")
            inner == tree[s].inner
        IN  /\ \A j \in 1..Len(X) :
                  /\ j <= 2 * Len(inner)
                  /\ X[j].task = inner[(j + 1) \div 2]
                  /\ X[j].type = IF j % 2 = 1 THEN "Call" ELSE "Return"
                  /\ (j % 2 = 0 /\ j < Len(X)) => X[j].err = Nil
            /\ Returned("Execute", p) =>
                  Len(X) = 2 * (IF OwnFailures(s) = {} THEN Len(inner)
                                ELSE Lowest(OwnFailures(s)))

\* C11 witness: Parallel.Execute returned; one Serial branch stopped at its first child,
\* its second never executed, and the other branch executed both of its children.
C11_Witness ==
    \E p \in BranchingNodes : \E s, u \in Children(p) :
        /\ Returned("Execute", p)
        /\ Failed("Execute", tree[s].inner[1])
        /\ Calls("Execute", tree[s].inner[2]) = 0
        /\ \A c \in Children(u) : ReturnErrs("Execute", c) = {Nil}

\* C12: Parallel.Execute returns nil exactly when no child's Execute returned an error,
\* and an error it returns is, unchanged, the error one of its failing children
\* returned.
C12_ParallelExecuteReturnsAChildsError ==
    \A p \in ParallelNodes : \A e \in ReturnErrs("Execute", p) :
        /\ e = Nil <=> \A c \in Children(p) : ~Failed("Execute", c)
        /\ e # Nil => \E c \in Children(p) : e \in ReturnErrs("Execute", c)

\* C12 witness: Parallel.Execute returned the error that its first child returned,
\* its second child having returned nil.
C12_Witness ==
    \E p \in ParallelNodes :
        /\ Failed("Execute", p)
        /\ ReturnErrs("Execute", p) = ReturnErrs("Execute", tree[p].inner[1])
        /\ ReturnErrs("Execute", tree[p].inner[2]) = {Nil}

\* The call of Execute or Rollback on composite p returns in this step.
ReturnsNow(p) ==
    LET th == ThreadOf(p)
    IN  /\ stack[th] # <<>>
        /\ Top(th).task = p
        /\ Top(th).op \in {"Execute", "Rollback"}
        /\ Len(stack'[th]) < Len(stack[th])

\* C13: within one call of Parallel.Execute or Parallel.Rollback firstError is written
\* at most once: it changes only from nil to the error of the failing child that holds
\* the mutex, never once it is set (until the next call declares it anew), and the
\* value the composite returns is the value firstError holds.
C13_FirstErrorWrittenOnce ==
    [][\A p \in ParallelNodes :
          /\ firstError'[p] # firstError[p] =>
                \/ /\ firstError[p] = Nil
                   /\ mu[p] \in Children(p)
                   /\ firstError'[p] = ret[mu[p]]
                \/ /\ firstError'[p] = Nil
                   /\ Top(ThreadOf(p)).task = p
                   /\ Top(ThreadOf(p)).pc = "entry"
          /\ ReturnsNow(p) => ret'[ThreadOf(p)] = firstError[p]]_vars

\* C13 witness: two children failed; one found firstError nil, the other found it set
\* and left it, and the composite returned the error of the first.
C13_Witness ==
    \E p \in ParallelNodes : \E op \in {"Execute", "Rollback"} : \E c, d \in Children(p) :
        /\ Saw(op, c) = {Nil}
        /\ Saw(op, d) = ReturnErrs(op, c)
        /\ ReturnErrs(op, d) # ReturnErrs(op, c)
        /\ ReturnErrs(op, p) = ReturnErrs(op, c)

RegistryOps == {"Get", "GetExecutor", "SetExecutor"}

OutputOps == {"GetOutputs", "SetOutputs"}

ManifestOps == {"GetManifest", "SetManifest"}

\* Some client is inside an operation of ops, between its lock and its unlock.
InProgress(ops) ==
    \E d \in Clients : client[d].op \in ops /\ client[d].pc \notin {"idle", "unlocked", "panicked"}

\* A client that would call an accessor of ctx.exec now gets its lock at once.
ExecOpsProceed(c) ==
    /\ ENABLED GetLock(c)
    /\ ENABLED GetExecutorRLock(c)
    /\ ENABLED SetExecutorLock(c)

OutputOpsProceed(c) == ENABLED GetOutputsRLock(c) /\ ENABLED SetOutputsLock(c)

ManifestOpsProceed(c) == ENABLED GetManifestRLock(c) /\ ENABLED SetManifestLock(c)

\* C14 as claimed: the executor registry, the output cache and the manifest cache have
\* each a lock of their own, so a call on one store never waits for a call in progress
\* on another: with no call in progress on its own store it gets its lock at once.
C14_EachStoreHasItsOwnLock ==
    \A c \in Clients : CanCall(c) =>
        /\ ~InProgress(RegistryOps) => ExecOpsProceed(c)
        /\ ~InProgress(OutputOps) => OutputOpsProceed(c)
        /\ ~InProgress(ManifestOps) => ManifestOpsProceed(c)

\* C14 amended: there are two locks. The executor registry and the output cache share
\* the lock of ctx.exec: a call on either gets the lock at once when no call is in
\* progress on both, and SetOutputs and GetOutputs wait while Get or SetExecutor holds
\* it. The manifest cache has its own lock: its calls never wait for a call on the
\* registry or the output cache, nor those for a call on the manifest cache.
C14_RegistryAndOutputsShareOneLock ==
    \A c \in Clients : CanCall(c) =>
        /\ ~InProgress(RegistryOps \cup OutputOps) => ExecOpsProceed(c) /\ OutputOpsProceed(c)
        /\ ~InProgress(ManifestOps) => ManifestOpsProceed(c)
        /\ (\E d \in Clients : client[d].op \in RegistryOps /\ execLock.writer = d) =>
              ~ENABLED GetOutputsRLock(c) /\ ~ENABLED SetOutputsLock(c)

\* C14 witness: Get holds the lock of ctx.exec and SetManifest the lock of the manifest
\* cache at the same time.
C14_Witness ==
    \E c, d \in Clients :
        /\ client[d].op = "Get" /\ execLock.writer = d
        /\ client[c].op = "SetManifest" /\ manifestLock.writer = c

\* C15: under a fair scheduler every call of Execute or Rollback on the root of a tree
\* of Serial and Parallel composites, whose leaves return and call the Context only
\* through its accessors, returns: no thread waits for ever for a lock of the Context,
\* for the firstError mutex or in wg.Wait().
C15_ExecuteAndRollbackReturn == (stack[Root] # <<>>) ~> (stack[Root] = <<>>)

\* C15 witness: a leaf waits for the lock of ctx.exec, which a leaf on another thread
\* holds.
C15_Witness ==
    \E th, u \in Nodes :
        /\ th # u
        /\ client[th].pc = "call" /\ client[th].op = "SetExecutor"
        /\ client[u].pc = "locked" /\ u \in {execLock.writer} \cup execLock.readers

\* Thread th is between the Lock and the Unlock of the guarded section of a goroutine
\* of Parallel.Execute or Parallel.Rollback, in no call and publishing nothing.
InGuardedSection(th) ==
    /\ Len(stack[th]) = 1
    /\ Top(th).op \in {"goExecute", "goRollback"}
    /\ Top(th).pc \in {"record", "unlock"}

\* Client c is inside accessor op at one of pcs.
Inside(c, op, pcs) == client[c].op = op /\ client[c].pc \in pcs

C17_GetOutputsReturnsLastCompletedPair ==
    \A c \in Clients : client[c].op = "GetOutputs" =>
        /\ \A d \in Clients : client[d].op # "SetOutputs"
        /\ client[c].pc = "read2" =>
              LET last == lastSet[client[c].host].outputs
              IN  GetOutputsResult(c) =
                      IF last = <<>> THEN <<NilBytes, NilBytes, FALSE>>
                      ELSE <<last[1].stdout, last[1].stderr, TRUE>>

\* C17 witness: two threads have called SetOutputs on one host and GetOutputs on that
\* host is returning ("a", "b", true).
C17_Witness ==
    \E c \in Clients :
        /\ client[c].op = "GetOutputs" /\ client[c].pc = "read2"
        /\ Cardinality(lastSet[client[c].host].writers) >= 2
        /\ GetOutputsResult(c) = <<"a", "b", TRUE>>

CompositeNodes == SerialNodes \cup ParallelNodes

\* The four structural variants, by the kind of task.
StructuralKinds == {"Serial", "Parallel", "StepDisplay", "ParallelStepDisplay"}

\* The positions of the notices about task t in the trace of the thread that runs it.
NoticesAt(t) ==
    {i \in 1..Len(trace[ThreadOf(t)]) :
        trace[ThreadOf(t)][i].type = "Notice" /\ trace[ThreadOf(t)][i].task = t}

\* C18: in Serial.Execute and Parallel.Execute a notice about a child is emitted exactly
\* when the child is none of the four structural variants and the hideDetailDisplay
\* flag of the composite that dispatches it is not set; then it is emitted once, names
\* the kind of the composite, and is directly followed by the Begin event of the child.
C18_NoticeIffLeafAndNotHidden ==
    \A p \in CompositeNodes : \A c \in Children(p) :
        LET T == trace[ThreadOf(c)]
        IN  /\ Cardinality(NoticesAt(c)) =
                   IF tree[c].kind \notin StructuralKinds /\ ~tree[p].hideDetailDisplay
                   THEN Begins(c) ELSE 0
            /\ Begins(c) <= 1
            /\ \A i \in NoticesAt(c) :
                  /\ T[i].op = tree[p].kind
                  /\ i < Len(T)
                  /\ T[i + 1] = BeginRec(c)

\* C18 witness: a composite with the flag not set has dispatched a leaf with a notice
\* and a display wrapper without one, and a composite with the flag set has dispatched
\* a leaf without a notice.
C18_Witness ==
    \E p, q \in CompositeNodes :
        /\ ~tree[p].hideDetailDisplay
        /\ \E c \in Children(p) : tree[c].kind = "Leaf" /\ NoticesAt(c) # {}
        /\ \E c \in Children(p) :
              tree[c].kind \in DisplayKinds /\ Begins(c) = 1 /\ NoticesAt(c) = {}
        /\ tree[q].hideDetailDisplay
        /\ \E c \in Children(q) : tree[c].kind = "Leaf" /\ Begins(c) = 1 /\ NoticesAt(c) = {}

\* Composites s and u are the same but for their hideDetailDisplay flags: the same
\* kind over as many children, all leaves.
Twins(s, u) ==
    /\ tree[s].kind = tree[u].kind
    /\ Len(tree[s].inner) = Len(tree[u].inner)
    /\ tree[s].hideDetailDisplay # tree[u].hideDetailDisplay
    /\ \A c \in Children(s) \cup Children(u) : tree[c].kind = "Leaf"

\* The place of task t in the run of composite b: 0 for b, j for its j-th child.
Rank(t, b) == IF t = b THEN 0 ELSE CHOOSE j \in 1..Len(tree[b].inner) : tree[b].inner[j] = t

\* An error of the run of b, the leaf it comes from named by its place.
PlacedErr(e, b) == IF e.task = 0 THEN e ELSE [e EXCEPT !.task = Rank(e.task, b)]

\* What the run of composite b did on the thread of b (k = 0) or of its k-th child:
\* calls, returns, events and what its goroutines saw, tasks named by their place; the
\* notices left out, and what the parent's goroutine saw around the run.
Run(b, k) ==
    LET th == IF k = 0 THEN b ELSE tree[b].inner[k]
        Kept(r) == r.type # "Notice" /\ ~(r.type = "Record" /\ r.task = b)
        T == SelectSeq(trace[th], Kept)
    IN  [i \in 1..Len(T) |-> [type |-> T[i].type, op |-> T[i].op,
                              task |-> Rank(T[i].task, b), err |-> PlacedErr(T[i].err, b)]]

\* Some leaf returned in the run of s something else than its twin in the run of u.
OutcomesDiffer(s, u) ==
    \E j \in 1..Len(tree[s].inner) : \E op \in {"Execute", "Rollback"} :
        \E e \in ReturnErrs(op, tree[s].inner[j]) : \E f \in ReturnErrs(op, tree[u].inner[j]) :
            PlacedErr(e, s) # PlacedErr(f, u)

\* C19: two runs of the same composite that differ only in its hideDetailDisplay flag,
\* side by side under one Parallel, do the same on every thread as far as they have
\* come -- the same calls of Execute and Rollback on the children in the same order,
\* the same Begin and Finish events with the same errors, the same returns -- unless
\* the leaves themselves returned differently, and then the first thing to differ on a
\* thread is that return; the flag shows in the notices only.
C19_FlagChangesNoticesOnly ==
    \A p \in ParallelNodes : \A s, u \in Children(p) :
        Twins(s, u) =>
            \A k \in 0..Len(tree[s].inner) :
                LET A == Run(s, k)
                    B == Run(u, k)
                    n == IF Len(A) < Len(B) THEN Len(A) ELSE Len(B)
                    D == {i \in 1..n : A[i] # B[i]}
                IN  D # {} =>
                       /\ OutcomesDiffer(s, u)
                       /\ A[Lowest(D)].type = "Return" /\ B[Lowest(D)].type = "Return"
                       /\ A[Lowest(D)].op = B[Lowest(D)].op
                       /\ A[Lowest(D)].task = B[Lowest(D)].task

\* C19 witness: twin runs have been executed and rolled back with a failing leaf, did
\* the same on every thread, and only the one whose flag is not set emitted notices.
C19_Witness ==
    \E p \in ParallelNodes : \E s, u \in Children(p) :
        /\ Twins(s, u)
        /\ Failed("Execute", s)
        /\ Returned("Rollback", s) /\ Returned("Rollback", u)
        /\ \A k \in 0..Len(tree[s].inner) : Run(s, k) = Run(u, k)
        /\ \E c \in Children(s) \cup Children(u) : NoticesAt(c) # {}
        /\ \E b \in {s, u} : \A c \in Children(b) : NoticesAt(c) = {}

\* The notices emitted and the events published so far, thread by thread, in order.
Announced ==
    [th \in Nodes |->
        LET Is(r) == r.type \in {"Notice", "Begin", "Finish"} IN SelectSeq(trace[th], Is)]

\* C20: Serial.Rollback and Parallel.Rollback publish no Begin or Finish event and emit
\* no notice: from the call of Rollback on the root on, no step adds to the notices and
\* events of any thread, whatever the composites rolled back.
C20_RollbackAnnouncesNothing ==
    [][(phase' # <<>> /\ phase'[Len(phase')] = "Rollback") => Announced' = Announced]_vars

\* C20 witness: after an Execute that published events, the Rollback of a Parallel and
\* of a Serial composite in one tree have returned.
C20_Witness ==
    \E p \in ParallelNodes : \E s \in SerialNodes :
        /\ Returned("Rollback", p) /\ Returned("Rollback", s)
        /\ \A c \in Children(p) \cup Children(s) : Calls("Rollback", c) = 1
        /\ \E th \in Nodes : Announced[th] # <<>>

====
